---- MODULE Spec2Model ----
(***************************************************************************)
(* Model of the Snake Score Service (src/backend/main.py).                 *)
(*                                                                         *)
(* The service keeps one module-level integer, high_score, and serves      *)
(* three synchronous ("def") FastAPI handlers.  Synchronous handlers are   *)
(* run on worker threads, so several update_high_score calls can be in     *)
(* progress at once; the handler takes no lock.  Each worker is modelled   *)
(* by its position in update_high_score: the compare of line 55, the       *)
(* store of line 56 and the load of line 58 are separate steps, which      *)
(* other workers can interleave with.  The check of lines 51-52 reads      *)
(* only the handler's own payload, so it is taken in the step that enters  *)
(* the handler.  health and read_high_score touch the store at most once   *)
(* (a single load), so each is one step.                                   *)
(***************************************************************************)
EXTENDS Integers, FiniteSets

\* Number of worker threads that can run update_high_score at once.
NumThreads == 2

\* Largest candidate score a client submits.
MaxScore == 2

\* Magnitude of the most negative candidate a client submits.
MaxNeg == 1

Threads == 1..NumThreads

\* Values of ScorePayload.score that reach the handler (line 20: an int).
Scores == (0 - MaxNeg)..MaxScore

\* detail of the HTTPException of line 52.
Detail == "Score must be 0 or higher."

VARIABLES
    high_score,  \* the module-level global of line 14
    pc,          \* pc[t]: where worker t is in update_high_score
    score,       \* score[t]: payload.score of the request worker t serves
    seen,        \* seen[t]: the value of high_score loaded by line 55
    submitted,   \* history: every payload.score handed to update_high_score
    last         \* history: the most recently completed request

vars == <<high_score, pc, score, seen, submitted, last>>

Max(a, b) == IF a >= b THEN a ELSE b

\* The largest element of a non-empty finite set of integers.
MaxOf(S) == CHOOSE m \in S : \A x \in S : x <= m

\* The candidates that pass the validation of line 51.
Valid(S) == {s \in S : s >= 0}

AllIdle == \A t \in Threads : pc[t] = "idle"

\* A completed request: the handler, the HTTP status and JSON body of its response, and for a read
\* (after) the handler and status of the request that completed before it.
Done(op, status, body) ==
    [op |-> op, status |-> status, body |-> body,
     after |-> IF op = "read" THEN <<last.op, last.status>> ELSE <<"none", 0>>]

\* Mutant of Init: the store starts at a "no score yet" sentinel.
InitSentinel ==
    /\ high_score = 0 - 1
    /\ pc = [t \in Threads |-> "idle"]
    /\ score = [t \in Threads |-> 0]
    /\ seen = [t \in Threads |-> 0]
    /\ submitted = {}
    /\ last = [op |-> "none", status |-> 0,
               body |-> [none |-> TRUE], after |-> <<"none", 0>>]

Init ==
    /\ high_score = 0
    /\ pc = [t \in Threads |-> "idle"]
    /\ score = [t \in Threads |-> 0]
    /\ seen = [t \in Threads |-> 0]
    /\ submitted = {}
    /\ last = [op |-> "none", status |-> 0,
               body |-> [none |-> TRUE], after |-> <<"none", 0>>]

\* Mutant of health: the status reflects whether workers are busy.
healthBusy ==
    /\ last' = Done("health", 200,
                    [status |-> IF AllIdle THEN "ok" ELSE "busy"])
    /\ UNCHANGED <<high_score, pc, score, seen, submitted>>

\* GET /health
health ==
    /\ last' = Done("health", 200, [status |-> "ok"])
    /\ UNCHANGED <<high_score, pc, score, seen, submitted>>

\* Mutant of read_high_score: the response carries the initial value.
read_high_scoreInitial ==
    /\ last' = Done("read", 200, [highScore |-> 0])
    /\ UNCHANGED <<high_score, pc, score, seen, submitted>>

\* GET /high-score
read_high_score ==
    /\ last' = Done("read", 200, [highScore |-> high_score])
    /\ UNCHANGED <<high_score, pc, score, seen, submitted>>

\* Mutant of Start: the bound of the check is off by one (score < -1).
StartOffByOne(t, s) ==
    /\ pc[t] = "idle"
    /\ submitted' = submitted \cup {s}
    /\ IF s < 0 - 1
       THEN /\ last' = Done("submit", 400, [detail |-> Detail])
            /\ UNCHANGED <<pc, score>>
       ELSE /\ pc' = [pc EXCEPT ![t] = "compare"]
            /\ score' = [score EXCEPT ![t] = s]
            /\ UNCHANGED last
    /\ UNCHANGED <<high_score, seen>>

\* POST /high-score with payload.score = s is given to worker t, which
\* runs lines 51-52: a negative score raises HTTPException(400).
Start(t, s) ==
    /\ pc[t] = "idle"
    /\ submitted' = submitted \cup {s}
    /\ IF s < 0
       THEN /\ last' = Done("submit", 400, [detail |-> Detail])
            /\ UNCHANGED <<pc, score>>
       ELSE /\ pc' = [pc EXCEPT ![t] = "compare"]
            /\ score' = [score EXCEPT ![t] = s]
            /\ UNCHANGED last
    /\ UNCHANGED <<high_score, seen>>

\* Mutant of Compare: the comparison is reversed (score < high_score).
CompareLess(t) ==
    /\ pc[t] = "compare"
    /\ seen' = [seen EXCEPT ![t] = high_score]
    /\ pc' = [pc EXCEPT ![t] = IF score[t] < high_score THEN "write" ELSE "return"]
    /\ UNCHANGED <<high_score, score, submitted, last>>

\* Line 55: load high_score and compare it with payload.score.
Compare(t) ==
    /\ pc[t] = "compare"
    /\ seen' = [seen EXCEPT ![t] = high_score]
    /\ pc' = [pc EXCEPT ![t] = IF score[t] > high_score THEN "write" ELSE "return"]
    /\ UNCHANGED <<high_score, score, submitted, last>>

\* Mutant of Write: the stored value is one more than the candidate.
WriteOffByOne(t) ==
    /\ pc[t] = "write"
    /\ high_score' = score[t] + 1
    /\ pc' = [pc EXCEPT ![t] = "return"]
    /\ UNCHANGED <<score, seen, submitted, last>>

\* Line 56: store payload.score into high_score.
Write(t) ==
    /\ pc[t] = "write"
    /\ high_score' = score[t]
    /\ pc' = [pc EXCEPT ![t] = "return"]
    /\ UNCHANGED <<score, seen, submitted, last>>

\* Line 58: load high_score again and return it.
Return(t) ==
    /\ pc[t] = "return"
    /\ last' = Done("submit", 200, [highScore |-> high_score])
    /\ pc' = [pc EXCEPT ![t] = "idle"]
    /\ score' = [score EXCEPT ![t] = 0]
    /\ seen' = [seen EXCEPT ![t] = 0]
    /\ UNCHANGED <<high_score, submitted>>

\* Requests served by concurrent worker threads.
Next ==
    \/ health
    \/ read_high_score
    \/ \E t \in Threads, s \in Scores : Start(t, s)
    \/ \E t \in Threads : Compare(t)
    \/ \E t \in Threads : Write(t)
    \/ \E t \in Threads : Return(t)

Spec == Init /\ [][Next]_vars

\* Requests served one at a time: a request starts only when no other
\* is in progress.
NextSeq ==
    \/ AllIdle /\ health
    \/ AllIdle /\ read_high_score
    \/ \E t \in Threads, s \in Scores : AllIdle /\ Start(t, s)
    \/ \E t \in Threads : Compare(t)
    \/ \E t \in Threads : Write(t)
    \/ \E t \in Threads : Return(t)

SpecSeq == Init /\ [][NextSeq]_vars

TypeOK ==
    /\ high_score \in Valid(Scores)
    /\ pc \in [Threads -> {"idle", "compare", "write", "return"}]
    /\ score \in [Threads -> Valid(Scores)]
    /\ seen \in [Threads -> Valid(Scores)]
    /\ submitted \subseteq Scores

(***************************************************************************)
(* Properties                                                              *)
(***************************************************************************)

\* A completed POST /high-score that passed validation.
SubmitOk(r) == r.op = "submit" /\ r.status = 200

\* A completed POST /high-score that was rejected.
SubmitRejected(r) == r.op = "submit" /\ r.status = 400

\* C1: under concurrent submissions, once every submission has completed
\* the stored high_score is the maximum of 0 and every valid candidate ever
\* submitted (no update is lost).
C1_NoLostUpdate ==
    AllIdle => high_score = MaxOf(Valid(submitted) \cup {0})

\* C2: when submissions are processed one at a time, in any order, then
\* after the last call the stored high_score is max(0, s1, ..., sn): it is 0
\* or one of the valid candidates, and no valid candidate exceeds it.
C2_SequentialMax ==
    AllIdle =>
        /\ high_score \in Valid(submitted) \cup {0}
        /\ \A s \in Valid(submitted) : s <= high_score

\* C2 witness: two different valid candidates have been processed one at a
\* time and the store and the last response hold the larger.
C2_Witness ==
    /\ AllIdle
    /\ Cardinality(Valid(submitted)) >= 2
    /\ SubmitOk(last)
    /\ last.body = [highScore |-> high_score]
    /\ high_score = MaxOf(Valid(submitted))

\* C3: a submit step with a negative candidate answers 400 with the detail
\* "Score must be 0 or higher.", starts no update and leaves high_score as
\* it was.
C3_NegativeRejected ==
    [][\A t \in Threads, s \in Scores :
          (s < 0 /\ Start(t, s)) =>
              /\ pc' = pc
              /\ high_score' = high_score
              /\ SubmitRejected(last')
              /\ last'.body = [detail |-> Detail]]_vars

\* C3 witness: a negative candidate has just been rejected while the store
\* holds a score above the initial 0.
C3_Witness ==
    /\ SubmitRejected(last)
    /\ \E s \in submitted : s < 0
    /\ high_score > 0

\* C4: the stored high_score is never negative.
C4_NonNegative == high_score >= 0

\* C4 witness: negative candidates have been submitted, a submission is in
\* progress and the store has been raised above 0.
C4_Witness ==
    /\ \E s \in submitted : s < 0
    /\ ~AllIdle
    /\ high_score > 0

\* C5: the step in which a submit returns (line 58) answers 200 with
\* max(value, candidate), where value is the stored high_score the submit
\* found; the returned highScore is never smaller than the candidate.
C5_ReturnsMax ==
    [][\A t \in Threads :
          (pc[t] = "return" /\ pc'[t] = "idle") =>
              /\ SubmitOk(last')
              /\ last'.body = [highScore |-> Max(seen[t], score[t])]
              /\ last'.body.highScore >= score[t]]_vars

\* C6: a submit whose candidate equals the stored high_score it found is a
\* no-op: when it returns it answers 200 with that value, and that value is
\* still the stored one.
C6_EqualIsNoOp ==
    [][\A t \in Threads :
          (pc[t] = "return" /\ pc'[t] = "idle" /\ score[t] = seen[t]) =>
              /\ SubmitOk(last')
              /\ last'.body = [highScore |-> seen[t]]
              /\ high_score' = seen[t]]_vars

\* C7: a read returns the stored high_score; before any submission it
\* returns 0; and a read made while no submit is in flight, right after a
\* completed successful submit, returns what that submit returned.
C7_ReadReturnsStored ==
    [][(pc' = pc /\ last' # last /\ last'.op = "read") =>
          /\ last'.status = 200
          /\ last'.body = [highScore |-> high_score]
          /\ (submitted = {} => last'.body.highScore = 0)
          /\ (AllIdle /\ SubmitOk(last) => last'.body = last.body)]_vars

\* C7 witness: with no submit in flight, a read has completed right after
\* a successful submit and carries a score above 0.
C7_Witness ==
    /\ AllIdle
    /\ last.op = "read"
    /\ last.after = <<"submit", 200>>
    /\ last.body.highScore > 0

\* C8: a step that completes a health check or a read leaves the store and
\* every running submit as they were, and every health check answers 200
\* with status "ok".
C8_HealthReadNoEffect ==
    [][/\ (last' # last /\ last'.op \in {"health", "read"}) =>
              /\ high_score' = high_score
              /\ <<pc, score, seen, submitted>>' = <<pc, score, seen, submitted>>
       /\ (last'.op = "health" =>
              last'.status = 200 /\ last'.body = [status |-> "ok"])]_vars

\* C8 witness: a health check has completed while a submission is between
\* its compare and its return and the store holds a score above 0.
C8_Witness ==
    /\ last.op = "health"
    /\ \E t \in Threads : pc[t] \in {"write", "return"}
    /\ high_score > 0

\* C9: no step decreases the stored high_score.
C9_NeverDecreases == [][high_score' >= high_score]_vars

\* C10: the stored high_score is 0 or a valid candidate that some submit
\* request has supplied.
C10_OnlySubmitted == high_score \in Valid(submitted) \cup {0}

\* C10 witness: negative and valid candidates have been supplied and the
\* store holds a supplied candidate that is not the largest one.
C10_Witness ==
    /\ \E s \in submitted : s < 0
    /\ high_score > 0
    /\ high_score < MaxOf(Valid(submitted))
====
